---- MODULE Spec2Model ----
(***************************************************************************)
(* Model of backend/services/data_fusion_engine.py (class                  *)
(* DataFusionEngine): room matching across sources, outlier removal,       *)
(* weighted fusion, confidence, validation and the fuse_all_sources run.   *)
(*                                                                         *)
(* Numbers.  TLC has 32-bit integers and no reals, so                      *)
(*   - lengths are held in units of Grid millimetres (MM(4000) = 80);      *)
(*   - areas (area_sqm) are held in hundredths of a square metre;          *)
(*   - source weights are held in tenths (0.9 is 9);                       *)
(*   - every computed quantity is an exact rational [n, d], except the     *)
(*     square root of the variance penalty, which is rounded down to       *)
(*     1/1000 (see calculate_measurement_confidence).                      *)
(* The code computes in IEEE doubles; the model computes the same          *)
(* expressions exactly.                                                    *)
(***************************************************************************)
EXTENDS Integers, Sequences, FiniteSets, TLC

VARIABLES
    source_weights,   \* self.source_weights of the engine
    data,             \* the request payload handed to fuse_all_sources
    pc,               \* "assemble" | "returned" | "rerun" | direct-call phases
    hash_order,       \* iteration orders of set(room_types) in the runs so far
    all_rooms,        \* local of fuse_all_sources (last run)
    matched_rooms,    \* local of fuse_all_sources (last run)
    fused_rooms,      \* local of fuse_all_sources (last run, rooms fused so far)
    raised,           \* whether the try block of the last run raised
    result,           \* value returned by the last run
    prev_result,      \* value returned by the run before it, on the same data
    call,             \* arguments and return value of a direct call
    frames            \* the call frames of two concurrent runs of fuse_all_sources

vars == <<source_weights, data, pc, hash_order, all_rooms, matched_rooms,
          fused_rooms, raised, result, prev_result, call, frames>>

-----------------------------------------------------------------------------
(* Bounds of the model *)

\* rooms in one request, over all sources
MaxRooms == 3
\* members of the group in one direct call of fuse_room_measurements
MaxGroup == 2
\* candidates in one direct call of find_best_match
MaxCandidates == 2
\* samples in one direct call of remove_outliers
MaxSamples == 5
\* measurements in one direct call of calculate_measurement_confidence
MaxMeasurements == 3

\* millimetres per length unit of the model
Grid == 1000 \div 20
MM(x) == x \div Grid

-----------------------------------------------------------------------------
(* Exact rationals *)

RECURSIVE GCD(_, _)
GCD(a, b) == IF b = 0 THEN a ELSE GCD(b, a % b)

Abs(x) == IF x < 0 THEN -x ELSE x
Min(a, b) == IF a < b THEN a ELSE b
Max(a, b) == IF a > b THEN a ELSE b

\* n/d in lowest terms, d > 0
Rat(n, d) ==
    LET g == GCD(Abs(n), Abs(d))
        s == IF d < 0 THEN -1 ELSE 1
    IN  [n |-> s * (n \div g), d |-> s * (d \div g)]

RInt(k) == [n |-> k, d |-> 1]
RLt(a, b) == a.n * b.d < b.n * a.d
RLe(a, b) == a.n * b.d <= b.n * a.d
RMul(a, b) == Rat(a.n * b.n, a.d * b.d)
RAdd(a, b) == Rat(a.n * b.d + b.n * a.d, a.d * b.d)
RSub(a, b) == Rat(a.n * b.d - b.n * a.d, a.d * b.d)
RMin(a, b) == IF RLt(b, a) THEN b ELSE a
RMax(a, b) == IF RLt(a, b) THEN b ELSE a

\* round(x * scale) to the nearest integer, ties to even (Python's round)
Round(x, scale) ==
    LET g   == GCD(scale, x.d)
        num == 2 * x.n * (scale \div g) + (x.d \div g)
        den == 2 * (x.d \div g)
        q   == num \div den
    IN  IF num % den = 0 /\ q % 2 = 1 THEN q - 1 ELSE q

\* largest k with k * k <= x, by bisection on lo <= k < hi
RECURSIVE IsqrtIn(_, _, _)
IsqrtIn(x, lo, hi) ==
    IF hi - lo <= 1 THEN lo
    ELSE LET mid == (lo + hi) \div 2
         IN  IF mid * mid <= x THEN IsqrtIn(x, mid, hi) ELSE IsqrtIn(x, lo, mid)

Isqrt(x) == IsqrtIn(x, 0, 46341)

RECURSIVE SumSeq(_)
SumSeq(s) == IF s = <<>> THEN 0 ELSE Head(s) + SumSeq(Tail(s))

\* the subsequence of s at the indices where mask is TRUE
RECURSIVE Masked(_, _)
Masked(s, mask) ==
    IF s = <<>> \/ mask = <<>> THEN <<>>
    ELSE (IF Head(mask) THEN <<Head(s)>> ELSE <<>>) \o Masked(Tail(s), Tail(mask))

-----------------------------------------------------------------------------
(* Values of a dictionary field: a number, a non-numeric string, or absent *)

Num(x) == [k |-> "num", v |-> x]
Absent == [k |-> "none", v |-> 0]
NonNumeric == [k |-> "str", v |-> 0]

\* Python truthiness of d.get(key): absent (None) and 0 are falsy
Truthy(f) == (f.k = "num" /\ f.v # 0) \/ f.k = "str"
\* d.get(key, default)
GetOr(f, default) == IF f.k = "none" THEN Num(default) ELSE f

NoName == ""
NoType == ""

-----------------------------------------------------------------------------
(* The engine's tables and the request payload *)

Sources == <<"floor_plan", "ar_measurement", "voice_input", "photos">>
SourceSet == {Sources[i] : i \in 1..Len(Sources)}

\* key of the request payload that carries each source
PayloadKey ==
    [floor_plan |-> "floor_plan_data", ar_measurement |-> "ar_data",
     voice_input |-> "voice_data", photos |-> "photo_data"]
PayloadKeys == {PayloadKey[s] : s \in SourceSet}

\* DataFusionEngine.__init__: self.source_weights, in tenths
InitWeights ==
    [ar_measurement |-> 9, floor_plan |-> 7, photos |-> 6, voice_input |-> 5]
\* mutant: every source weighs 0.5
WeightOf_uniform(weights, source) == 5

\* self.source_weights.get(source, 0.5)
WeightOf(weights, source) ==
    IF source \in DOMAIN weights THEN weights[source] ELSE 5

Dims(l, w, h, a) == [length_mm |-> l, width_mm |-> w, height_mm |-> h, area_sqm |-> a]

\* The candidate rooms an adapter may deliver (without their id); area_sqm
\* is length * width as the adapters compute it
BedroomA == [type |-> "bedroom", name |-> "Bed",
             dimensions |-> Dims(Num(MM(4000)), Num(MM(3000)), Absent, Num(1200))]
BedroomB == [type |-> "bedroom", name |-> NoName,
             dimensions |-> Dims(Num(MM(4100)), Num(MM(3000)), Num(MM(2900)), Num(1230))]
\* a room of unknown type under a low ceiling (2.0 m)
UnknownA == [type |-> "unknown", name |-> NoName,
             dimensions |-> Dims(Num(MM(4000)), Num(MM(3000)), Num(MM(2000)), Num(1200))]
\* a room whose length_mm is missing
NoLength == [type |-> "bedroom", name |-> NoName,
             dimensions |-> Dims(Absent, Num(MM(3000)), Absent, Num(1200))]
\* a room whose length_mm and area_sqm are strings
BadNumbers == [type |-> "bedroom", name |-> NoName,
               dimensions |-> Dims(NonNumeric, Num(MM(3000)), Absent, NonNumeric)]
\* a bedroom measured a little differently (direct calls only)
BedroomC == [type |-> "bedroom", name |-> NoName,
             dimensions |-> Dims(Num(MM(4050)), Num(MM(2950)), Absent, Num(1195))]
Templates == {BedroomA, BedroomB, UnknownA, NoLength, BadNumbers}

WithId(t, id) == [id |-> id, type |-> t.type, name |-> t.name, dimensions |-> t.dimensions]

\* iteration orders of a Python set of type strings (they depend on the
\* process's string hash seed)
HashOrders == {<<"bedroom", "unknown">>, <<"unknown", "bedroom">>}

EmptyRooms == [s \in SourceSet |-> <<>>]

-----------------------------------------------------------------------------
(* extract_all_rooms *)

extract_all_rooms(d) ==
    [s \in SourceSet |->
        IF d[PayloadKey[s]].success THEN d[PayloadKey[s]].rooms ELSE <<>>]

-----------------------------------------------------------------------------
(* find_best_match: match is <<>> for None and <<room>> for a room; raised *)
(* when a comparison of a str area with 0 raises TypeError                 *)

\* `ref_area > 0 and cand_area > 0` raises on a str operand it evaluates
ScoreRaises(reference_room, candidate) ==
    LET ref_area  == GetOr(reference_room.dimensions.area_sqm, 0)
        cand_area == GetOr(candidate.dimensions.area_sqm, 0)
    IN  \/ ref_area.k = "str"
        \/ ref_area.v > 0 /\ cand_area.k = "str"

\* mutant: the weights of the type and of the area are swapped
MatchScore_swapped(reference_room, candidate) ==
    LET ref_type  == IF reference_room.type = NoType THEN "unknown"
                     ELSE reference_room.type
        ref_area  == GetOr(reference_room.dimensions.area_sqm, 0).v
        cand_area == GetOr(candidate.dimensions.area_sqm, 0).v
        type_part == IF candidate.type = ref_type /\ ref_type # "unknown"
                     THEN Rat(4, 10) ELSE RInt(0)
        diff      == Abs(ref_area - cand_area)
        big       == Max(ref_area, cand_area)
        area_part == IF ref_area > 0 /\ cand_area > 0 /\ 10 * diff < 3 * big
                     THEN RMul(Rat(6, 10), Rat(big - diff, big)) ELSE RInt(0)
    IN  RAdd(type_part, area_part)

\* score of one candidate against the reference room
MatchScore(reference_room, candidate) ==
    LET ref_type  == IF reference_room.type = NoType THEN "unknown"
                     ELSE reference_room.type
        ref_area  == GetOr(reference_room.dimensions.area_sqm, 0).v
        cand_area == GetOr(candidate.dimensions.area_sqm, 0).v
        type_part == IF candidate.type = ref_type /\ ref_type # "unknown"
                     THEN Rat(6, 10) ELSE RInt(0)
        diff      == Abs(ref_area - cand_area)
        big       == Max(ref_area, cand_area)
        area_part == IF ref_area > 0 /\ cand_area > 0 /\ 10 * diff < 3 * big
                     THEN RMul(Rat(4, 10), Rat(big - diff, big)) ELSE RInt(0)
    IN  RAdd(type_part, area_part)

Best(exc, best_match, best_score) ==
    [raised |-> exc, best_match |-> best_match, best_score |-> best_score]

\* mutant: a candidate of equal score replaces the best so far (>=)
RECURSIVE BestMatchLoop_last(_, _, _, _)
BestMatchLoop_last(reference_room, candidates, best_match, best_score) ==
    IF candidates = <<>> THEN Best(FALSE, best_match, best_score)
    ELSE IF ScoreRaises(reference_room, Head(candidates))
    THEN Best(TRUE, <<>>, RInt(0))
    ELSE IF RLe(best_score, MatchScore(reference_room, Head(candidates)))
    THEN BestMatchLoop_last(reference_room, Tail(candidates), <<Head(candidates)>>,
                            MatchScore(reference_room, Head(candidates)))
    ELSE BestMatchLoop_last(reference_room, Tail(candidates), best_match, best_score)

\* the loop over the candidates: best_match holds <<candidate>> or <<>>
RECURSIVE BestMatchLoop(_, _, _, _)
BestMatchLoop(reference_room, candidates, best_match, best_score) ==
    IF candidates = <<>> THEN Best(FALSE, best_match, best_score)
    ELSE IF ScoreRaises(reference_room, Head(candidates))
    THEN Best(TRUE, <<>>, RInt(0))
    ELSE IF RLt(best_score, MatchScore(reference_room, Head(candidates)))
    THEN BestMatchLoop(reference_room, Tail(candidates), <<Head(candidates)>>,
                       MatchScore(reference_room, Head(candidates)))
    ELSE BestMatchLoop(reference_room, Tail(candidates), best_match, best_score)

Found(exc, match) == [raised |-> exc, match |-> match]

\* the best candidate when its score is above 0.4
Accept(best) ==
    IF best.raised THEN Found(TRUE, <<>>)
    ELSE IF RLt(Rat(4, 10), best.best_score) THEN Found(FALSE, best.best_match)
    ELSE Found(FALSE, <<>>)

\* mutant: the best candidate is accepted at a score of 0.4 already (>=)
find_best_match_at_threshold(reference_room, candidate_rooms) ==
    IF candidate_rooms = <<>> THEN Found(FALSE, <<>>)
    ELSE LET best == BestMatchLoop(reference_room, candidate_rooms, <<>>, RInt(0))
         IN  IF best.raised THEN Found(TRUE, <<>>)
             ELSE IF RLe(Rat(4, 10), best.best_score) THEN Found(FALSE, best.best_match)
             ELSE Found(FALSE, <<>>)

find_best_match(reference_room, candidate_rooms) ==
    IF candidate_rooms = <<>> THEN Found(FALSE, <<>>)
    ELSE Accept(BestMatchLoop(reference_room, candidate_rooms, <<>>, RInt(0)))

-----------------------------------------------------------------------------
(* match_rooms_across_sources: the groups, or raised when a search raises *)

Item(source, room) == [source |-> source, data |-> room]

\* mutant: every acceptable candidate of the source joins the group
RECURSIVE AcceptableItems(_, _, _)
AcceptableItems(room, candidates, source) ==
    IF candidates = <<>> THEN <<>>
    ELSE (IF ~ScoreRaises(room, Head(candidates))
             /\ RLt(Rat(4, 10), MatchScore(room, Head(candidates)))
          THEN <<Item(source, Head(candidates))>> ELSE <<>>)
         \o AcceptableItems(room, Tail(candidates), source)
MatchIn_all(room, rooms, source) == AcceptableItems(room, rooms[source], source)

\* the items a source adds to an anchor room's group
MatchIn(room, rooms, source) ==
    LET m == find_best_match(room, rooms[source]).match
    IN  IF m = <<>> THEN <<>> ELSE <<Item(source, m[1])>>

\* the sources searched for each room of an anchor
Searched(anchor) ==
    CASE anchor = "floor_plan"     -> <<"ar_measurement", "voice_input">>
      [] anchor = "ar_measurement" -> <<"voice_input">>
      [] OTHER                     -> <<>>

\* mutant: the AR rooms are preferred to the floor plan as the base
Anchor_ar_first(rooms) ==
    IF rooms["ar_measurement"] # <<>> THEN "ar_measurement"
    ELSE IF rooms["floor_plan"] # <<>> THEN "floor_plan"
    ELSE "voice_input"

\* the anchor: floor plan (if available), else AR, else voice
Anchor(rooms) ==
    IF rooms["floor_plan"] # <<>> THEN "floor_plan"
    ELSE IF rooms["ar_measurement"] # <<>> THEN "ar_measurement"
    ELSE "voice_input"

RECURSIVE GroupFrom(_, _, _)
GroupFrom(room, rooms, sources) ==
    IF sources = <<>> THEN <<>>
    ELSE MatchIn(room, rooms, Head(sources)) \o GroupFrom(room, rooms, Tail(sources))

SearchRaises(rooms) ==
    \E i \in 1..Len(rooms[Anchor(rooms)]), j \in 1..Len(Searched(Anchor(rooms))) :
        find_best_match(rooms[Anchor(rooms)][i], rooms[Searched(Anchor(rooms))[j]]).raised

Matched(exc, groups) == [raised |-> exc, groups |-> groups]

match_rooms_across_sources(rooms) ==
    IF SearchRaises(rooms) THEN Matched(TRUE, <<>>)
    ELSE Matched(FALSE,
            [i \in 1..Len(rooms[Anchor(rooms)]) |->
                <<Item(Anchor(rooms), rooms[Anchor(rooms)][i])>>
                \o GroupFrom(rooms[Anchor(rooms)][i], rooms, Searched(Anchor(rooms)))])

-----------------------------------------------------------------------------
(* weighted_average: values in length units, weights in tenths *)

RECURSIVE WeightedSum(_, _)
\* sum(v * w for v, w in zip(values, weights))
WeightedSum(values, weights) ==
    IF values = <<>> \/ weights = <<>> THEN 0
    ELSE Head(values) * Head(weights) + WeightedSum(Tail(values), Tail(weights))

\* mutant: the weighted sum is divided by the number of values
weighted_average_by_count(values, weights) ==
    IF values = <<>> \/ weights = <<>> THEN RInt(0)
    ELSE Rat(WeightedSum(values, weights), 10 * Len(values))

\* mutant: the weights are ignored (plain mean of the values)
weighted_average_unweighted(values, weights) ==
    IF values = <<>> \/ weights = <<>> THEN RInt(0)
    ELSE IF SumSeq(weights) > 0 THEN Rat(SumSeq(values), Len(values)) ELSE RInt(0)

weighted_average(values, weights) ==
    IF values = <<>> \/ weights = <<>> THEN RInt(0)
    ELSE LET weighted_sum == WeightedSum(values, weights)
             weight_sum   == SumSeq(weights)
         IN  IF weight_sum > 0 THEN Rat(weighted_sum, weight_sum) ELSE RInt(0)

-----------------------------------------------------------------------------
(* remove_outliers *)

Squares(s) == [i \in 1..Len(s) |-> s[i] * s[i]]

\* n^2 times the population variance of s: n * sum(x^2) - sum(x)^2
ScaledVariance(s) == Len(s) * SumSeq(Squares(s)) - SumSeq(s) * SumSeq(s)

\* mutant: the z-score is taken against the sample standard deviation (ddof=1)
ZMask_sample_std(lengths) ==
    LET n == Len(lengths)
        S == SumSeq(lengths)
        D == ScaledVariance(lengths)
    IN  [i \in 1..n |->
            D > 0 /\ (n - 1) * (n * lengths[i] - S) * (n * lengths[i] - S) < 4 * n * D]

\* mask = abs(stats.zscore(lengths)) < 2.  zscore divides by the population
\* standard deviation; for constant input every z-score is nan and nan < 2
\* is False.  |z_i| < 2 iff (n x_i - S)^2 < 4 (n Q - S^2).
ZMask(lengths) ==
    LET n == Len(lengths)
        S == SumSeq(lengths)
        D == ScaledVariance(lengths)
    IN  [i \in 1..n |->
            D > 0 /\ (n * lengths[i] - S) * (n * lengths[i] - S) < 4 * D]

Quad(l, w, h, wt) == [lengths |-> l, widths |-> w, heights |-> h, weights |-> wt]

\* mutant: the mask is applied to the lengths only
remove_outliers_lengths_only(lengths, widths, heights, weights) ==
    IF Len(lengths) < 3 THEN Quad(lengths, widths, heights, weights)
    ELSE Quad(Masked(lengths, ZMask(lengths)), widths, heights, weights)

remove_outliers(lengths, widths, heights, weights) ==
    IF Len(lengths) < 3 THEN Quad(lengths, widths, heights, weights)
    ELSE LET mask == ZMask(lengths)
         IN  Quad(Masked(lengths, mask), Masked(widths, mask),
                  Masked(heights, mask), Masked(weights, mask))

-----------------------------------------------------------------------------
(* calculate_measurement_confidence: the confidence as a rational *)

\* min(cv * 0.2, 0.3) in thousandths, rounded down, where
\* cv = sqrt(var) / mean if mean > 0 else 1.0
VariancePenalty(measurements) ==
    IF Len(measurements) > 1
    THEN LET S  == SumSeq(measurements)
             D  == ScaledVariance(measurements)
             cv200 == IF S > 0 THEN Isqrt(40000 * D) \div S ELSE 200
         IN  Min(cv200, 300)
    ELSE 100

\* mutant: the confidence is returned without the clamp to [0, 1]
calculate_measurement_confidence_unclamped(measurements, weights, num_sources) ==
    IF measurements = <<>> THEN RInt(0)
    ELSE LET avg_weight == IF weights # <<>>
                           THEN Rat(SumSeq(weights), 10 * Len(weights))
                           ELSE Rat(5, 10)
             source_bonus == Rat(Min(num_sources, 3), 10)
             variance_penalty == Rat(VariancePenalty(measurements), 1000)
         IN  RSub(RAdd(avg_weight, source_bonus), variance_penalty)

\* mutant: the bonus counts the measurements retained, not the group members
calculate_measurement_confidence_retained_count(measurements, weights, num_sources) ==
    IF measurements = <<>> THEN RInt(0)
    ELSE LET avg_weight == IF weights # <<>>
                           THEN Rat(SumSeq(weights), 10 * Len(weights))
                           ELSE Rat(5, 10)
             source_bonus == Rat(Min(Len(measurements), 3), 10)
             variance_penalty == Rat(VariancePenalty(measurements), 1000)
             confidence == RSub(RAdd(avg_weight, source_bonus), variance_penalty)
         IN  RMax(RInt(0), RMin(RInt(1), confidence))

calculate_measurement_confidence(measurements, weights, num_sources) ==
    IF measurements = <<>> THEN RInt(0)
    ELSE LET avg_weight == IF weights # <<>>
                           THEN Rat(SumSeq(weights), 10 * Len(weights))
                           ELSE Rat(5, 10)
             source_bonus == Rat(Min(num_sources, 3), 10)
             variance_penalty == Rat(VariancePenalty(measurements), 1000)
             confidence == RSub(RAdd(avg_weight, source_bonus), variance_penalty)
         IN  RMax(RInt(0), RMin(RInt(1), confidence))

-----------------------------------------------------------------------------
(* validate_dimensions: arguments in metres, standards in hundredths *)

Standard(a, l, h) == [min_area |-> a, min_length |-> l, min_height |-> h]

StandardFor(room_type) ==
    CASE room_type = "master_bedroom" -> Standard(900, 270, 275)
      [] room_type = "bedroom"        -> Standard(750, 240, 275)
      [] room_type = "living_room"    -> Standard(1200, 300, 275)
      [] room_type = "kitchen"        -> Standard(550, 210, 275)
      [] room_type = "bathroom"       -> Standard(300, 150, 240)
      [] room_type = "toilet"         -> Standard(150, 120, 240)
      [] OTHER                        -> Standard(200, 150, 240)

\* a result (is_valid, message); the message keeps the check that failed,
\* the value it prints to one decimal (in tenths) and the limit it names
Verdict(ok, text, value, limit, room_type) ==
    [is_valid |-> ok,
     validation_message |->
        [text |-> text, value |-> value, limit |-> limit, room_type |-> room_type]]

\* mutant: the shorter side is checked before the area
validate_dimensions_length_first(length_m, width_m, height_m, room_type) ==
    LET area == RMul(length_m, width_m)
        std  == StandardFor(room_type)
    IN  IF RLt(RMin(length_m, width_m), Rat(std.min_length, 100))
        THEN Verdict(FALSE, "Dimension below minimum", 0, std.min_length, room_type)
        ELSE IF RLt(area, Rat(std.min_area, 100))
        THEN Verdict(FALSE, "Area below minimum", Round(area, 10), std.min_area, room_type)
        ELSE IF RLt(height_m, Rat(std.min_height, 100))
        THEN Verdict(FALSE, "Height below minimum", Round(height_m, 10), std.min_height, "")
        ELSE IF RLt(RInt(100), area)
        THEN Verdict(FALSE, "Area unusually large", Round(area, 10), 0, "")
        ELSE IF RLt(RInt(5), height_m)
        THEN Verdict(FALSE, "Height unusually high", Round(height_m, 10), 0, "")
        ELSE Verdict(TRUE, "Valid", 0, 0, "")

validate_dimensions(length_m, width_m, height_m, room_type) ==
    LET area == RMul(length_m, width_m)
        std  == StandardFor(room_type)
    IN  IF RLt(area, Rat(std.min_area, 100))
        THEN Verdict(FALSE, "Area below minimum", Round(area, 10), std.min_area, room_type)
        ELSE IF RLt(RMin(length_m, width_m), Rat(std.min_length, 100))
        THEN Verdict(FALSE, "Dimension below minimum", 0, std.min_length, room_type)
        ELSE IF RLt(height_m, Rat(std.min_height, 100))
        THEN Verdict(FALSE, "Height below minimum", Round(height_m, 10), std.min_height, "")
        ELSE IF RLt(RInt(100), area)
        THEN Verdict(FALSE, "Area unusually large", Round(area, 10), 0, "")
        ELSE IF RLt(RInt(5), height_m)
        THEN Verdict(FALSE, "Height unusually high", Round(height_m, 10), 0, "")
        ELSE Verdict(TRUE, "Valid", 0, 0, "")

-----------------------------------------------------------------------------
(* fuse_room_measurements *)

\* the measurement lists collected from a group; a length is collected when
\* dims.get('length_mm') is truthy, with width default 0 and height default 3000
RECURSIVE Collect(_, _)
Collect(room_group, weights) ==
    IF room_group = <<>>
    THEN [lengths |-> <<>>, widths |-> <<>>, heights |-> <<>>, weights |-> <<>>,
          room_types |-> <<>>, room_names |-> <<>>]
    ELSE LET item == Head(room_group)
             dims == item.data.dimensions
             used == Truthy(dims.length_mm)
             rest == Collect(Tail(room_group), weights)
         IN  [lengths |-> (IF used THEN <<dims.length_mm>> ELSE <<>>) \o rest.lengths,
              widths  |-> (IF used THEN <<GetOr(dims.width_mm, 0)>> ELSE <<>>) \o rest.widths,
              heights |-> (IF used THEN <<GetOr(dims.height_mm, MM(3000))>> ELSE <<>>)
                          \o rest.heights,
              weights |-> (IF used THEN <<WeightOf(weights, item.source)>> ELSE <<>>)
                          \o rest.weights,
              room_types |-> (IF item.data.type # NoType THEN <<item.data.type>> ELSE <<>>)
                             \o rest.room_types,
              room_names |-> (IF item.data.name # NoName THEN <<item.data.name>> ELSE <<>>)
                             \o rest.room_names]

AllNumeric(fields) == \A i \in 1..Len(fields) : fields[i].k = "num"
Values(fields) == [i \in 1..Len(fields) |-> fields[i].v]

Count(s, x) == Cardinality({i \in 1..Len(s) : s[i] = x})

\* max(set(room_types), key=room_types.count): the first type, in the set's
\* iteration order, whose count is the largest
RECURSIVE FirstMost(_, _)
FirstMost(room_types, order) ==
    IF order = <<>> THEN "unknown"
    ELSE IF Count(room_types, Head(order)) > 0
            /\ \A j \in 1..Len(room_types) :
                  Count(room_types, room_types[j]) <= Count(room_types, Head(order))
         THEN Head(order)
         ELSE FirstMost(room_types, Tail(order))

ResolveType(room_types, order) ==
    IF room_types # <<>> THEN FirstMost(room_types, order) ELSE "unknown"

\* room_type.replace("_", " ").title()
Title(room_type) ==
    CASE room_type = "bedroom"        -> "Bedroom"
      [] room_type = "master_bedroom" -> "Master Bedroom"
      [] room_type = "living_room"    -> "Living Room"
      [] room_type = "kitchen"        -> "Kitchen"
      [] room_type = "bathroom"       -> "Bathroom"
      [] room_type = "toilet"         -> "Toilet"
      [] room_type = "unknown"        -> "Unknown"
      [] OTHER                        -> room_type

NoRoom == [kind |-> "none"]
Raise(error) == [kind |-> "raise", error |-> error]

\* lengths in metres from length units
Metres(x) == RMul(x, Rat(Grid, 1000))

fuse_room_measurements(room_group, weights, order) ==
    IF room_group = <<>> THEN NoRoom
    ELSE LET c == Collect(room_group, weights)
         IN
         IF c.lengths = <<>> THEN NoRoom
         \* arithmetic on a str length raises TypeError (zscore, or v * w)
         ELSE IF ~(AllNumeric(c.lengths) /\ AllNumeric(c.widths) /\ AllNumeric(c.heights))
         THEN Raise("TypeError")
         ELSE LET clean == remove_outliers(Values(c.lengths), Values(c.widths),
                                           Values(c.heights), c.weights)
                  fused_length == weighted_average(clean.lengths, clean.weights)
                  fused_width  == weighted_average(clean.widths, clean.weights)
                  fused_height == weighted_average(clean.heights, clean.weights)
                  room_type == ResolveType(c.room_types, order)
                  room_name == IF c.room_names # <<>> THEN c.room_names[1]
                               ELSE Title(room_type)
                  confidence == calculate_measurement_confidence(
                                    clean.lengths, clean.weights, Len(room_group))
                  v == validate_dimensions(Metres(fused_length), Metres(fused_width),
                                           Metres(fused_height), room_type)
              IN  [kind |-> "room",
                   room |->
                    [id |-> <<"fused", room_group[1].data.id>>,
                     name |-> room_name,
                     type |-> room_type,
                     dimensions |->
                        \* millimetres and metres in hundredths, area in hundredths
                        [length_mm |-> Round(fused_length, 100 * Grid),
                         width_mm  |-> Round(fused_width, 100 * Grid),
                         height_mm |-> Round(fused_height, 100 * Grid),
                         length_m  |-> Round(Metres(fused_length), 100),
                         width_m   |-> Round(Metres(fused_width), 100),
                         height_m  |-> Round(Metres(fused_height), 100),
                         area_sqm  |-> Round(RMul(Metres(fused_length),
                                                  Metres(fused_width)), 100)],
                     fusion_metadata |->
                        [sources_used |-> [i \in 1..Len(room_group) |-> room_group[i].source],
                         confidence |-> Round(confidence, 100),
                         measurements_fused |-> Len(clean.lengths),
                         is_valid |-> v.is_valid,
                         validation_message |-> v.validation_message]]]

-----------------------------------------------------------------------------
(* building metrics and run metadata *)

RoomAreas(rooms) == [i \in 1..Len(rooms) |-> rooms[i].dimensions.area_sqm]
RoomConfidences(rooms) == [i \in 1..Len(rooms) |-> rooms[i].fusion_metadata.confidence]

\* the request of the model carries no building_name, owner_name or
\* voice_data.building_info, so the defaults apply
calculate_building_metrics(rooms, d) ==
    [id |-> "building_1",
     name |-> "My Building",
     owner_name |-> "None",
     total_floor_area_sqm |-> SumSeq(RoomAreas(rooms)),
     number_of_floors |-> 1,
     total_rooms |-> Len(rooms)]

RECURSIVE SuccessfulFrom(_, _)
SuccessfulFrom(d, i) ==
    IF i > Len(Sources) THEN <<>>
    ELSE (IF d[PayloadKey[Sources[i]]].success THEN <<Sources[i]>> ELSE <<>>)
         \o SuccessfulFrom(d, i + 1)

get_sources_used(d) == SuccessfulFrom(d, 1)

\* mutant: the sum of the confidences is not divided by the number of rooms
calculate_overall_confidence_sum(rooms) ==
    IF rooms = <<>> THEN 0
    ELSE Round(Rat(SumSeq(RoomConfidences(rooms)), 100), 100)

\* in hundredths
calculate_overall_confidence(rooms) ==
    IF rooms = <<>> THEN 0
    ELSE Round(Rat(SumSeq(RoomConfidences(rooms)), 100 * Len(rooms)), 100)

-----------------------------------------------------------------------------
(* fuse_all_sources *)

Looped(exc, error, fused) == [raised |-> exc, error |-> error, fused_rooms |-> fused]

\* mutant: a room that fails validation is dropped like a room without data
RECURSIVE FuseLoop_drop_invalid(_, _, _, _)
FuseLoop_drop_invalid(groups, weights, order, fused) ==
    IF groups = <<>> THEN Looped(FALSE, "", fused)
    ELSE LET fused_room == fuse_room_measurements(Head(groups), weights, order)
         IN  IF fused_room.kind = "raise" THEN Looped(TRUE, fused_room.error, fused)
             ELSE FuseLoop_drop_invalid(Tail(groups), weights, order,
                           IF fused_room.kind = "room"
                              /\ fused_room.room.fusion_metadata.is_valid
                           THEN Append(fused, fused_room.room) ELSE fused)

\* mutant: a group without usable data aborts the loop as an error
RECURSIVE FuseLoop_abort_on_none(_, _, _, _)
FuseLoop_abort_on_none(groups, weights, order, fused) ==
    IF groups = <<>> THEN Looped(FALSE, "", fused)
    ELSE LET fused_room == fuse_room_measurements(Head(groups), weights, order)
         IN  IF fused_room.kind # "room" THEN Looped(TRUE, "NoData", fused)
             ELSE FuseLoop_abort_on_none(Tail(groups), weights, order,
                                         Append(fused, fused_room.room))

\* the loop over the groups: stops at the first group that raises
RECURSIVE FuseLoop(_, _, _, _)
FuseLoop(groups, weights, order, fused) ==
    IF groups = <<>> THEN Looped(FALSE, "", fused)
    ELSE \* fused_room = self.fuse_room_measurements(room_group)
         LET fused_room == fuse_room_measurements(Head(groups), weights, order)
         IN  IF fused_room.kind = "raise" THEN Looped(TRUE, fused_room.error, fused)
             ELSE FuseLoop(Tail(groups), weights, order,
                           IF fused_room.kind = "room"
                           THEN Append(fused, fused_room.room) ELSE fused)

ErrorResult(error) == [error |-> error, success |-> FALSE]

SuccessResult(rooms, d) ==
    [success |-> TRUE,
     building |-> calculate_building_metrics(rooms, d),
     rooms |-> rooms,
     fusion_metadata |->
        [sources_used |-> get_sources_used(d),
         total_rooms_detected |-> Len(rooms),
         overall_confidence |-> calculate_overall_confidence(rooms)]]

\* mutant: the error result carries the rooms fused before the exception
fuse_all_sources_partial(loop, d) ==
    IF loop.raised
    THEN [error |-> loop.error, success |-> FALSE, rooms |-> loop.fused_rooms]
    ELSE SuccessResult(loop.fused_rooms, d)

\* the value fuse_all_sources returns from the outcome of its loop
fuse_all_sources(loop, d) ==
    IF loop.raised THEN ErrorResult(loop.error)
    ELSE SuccessResult(loop.fused_rooms, d)

-----------------------------------------------------------------------------
(* The state machine: a request is assembled from the adapters' candidate   *)
(* rooms, fuse_all_sources runs on it, and runs on it once more            *)

NoResult == [pending |-> TRUE]
NoCall == [op |-> "none"]

EmptyData == [k \in PayloadKeys |-> [success |-> TRUE, rooms |-> <<>>]]

TotalRooms(d) == SumSeq([i \in 1..Len(Sources) |-> Len(d[PayloadKey[Sources[i]]].rooms)])

\* the locals of one call of fuse_all_sources that has not started
IdleFrame ==
    [pc |-> "idle", order |-> <<>>, all_rooms |-> EmptyRooms, matched_rooms |-> <<>>,
     next_group |-> 1, fused_rooms |-> <<>>, raised |-> FALSE, error |-> "",
     result |-> NoResult]
RunIds == {1, 2}

Init ==
    /\ source_weights = InitWeights
    /\ data = EmptyData
    /\ pc = "assemble"
    /\ hash_order = <<>>
    /\ all_rooms = EmptyRooms
    /\ matched_rooms = <<>>
    /\ fused_rooms = <<>>
    /\ raised = FALSE
    /\ result = NoResult
    /\ prev_result = NoResult
    /\ call = NoCall
    /\ frames = [r \in RunIds |-> IdleFrame]

\* an adapter delivers one more candidate room of source s
AddRoom(s, t) ==
    /\ pc = "assemble"
    /\ TotalRooms(data) < MaxRooms
    /\ LET key == PayloadKey[s]
           id  == <<s, Len(data[key].rooms) + 1>>
       IN  data' = [data EXCEPT ![key].rooms = Append(@, WithId(t, id))]
    /\ UNCHANGED <<source_weights, pc, hash_order, all_rooms, matched_rooms,
                   fused_rooms, raised, result, prev_result, call, frames>>

\* the adapter of source s reports failure (at most one does)
MarkFailed(s) ==
    /\ pc = "assemble"
    /\ \A k \in PayloadKeys : data[k].success
    /\ data' = [data EXCEPT ![PayloadKey[s]].success = FALSE]
    /\ UNCHANGED <<source_weights, pc, hash_order, all_rooms, matched_rooms,
                   fused_rooms, raised, result, prev_result, call, frames>>

\* one call of fuse_all_sources(data) in a process whose sets iterate in order
RunFusion(order, next_pc) ==
    \E rooms \in {extract_all_rooms(data)} :
    \E matched \in {match_rooms_across_sources(rooms)} :
    \E loop \in {IF matched.raised THEN Looped(TRUE, "TypeError", <<>>)
                 ELSE FuseLoop(matched.groups, source_weights, order, <<>>)} :
        /\ hash_order' = Append(hash_order, order)
        /\ all_rooms' = rooms
        /\ matched_rooms' = matched.groups
        /\ fused_rooms' = loop.fused_rooms
        /\ raised' = loop.raised
        /\ prev_result' = result
        /\ result' = fuse_all_sources(loop, data)
        /\ pc' = next_pc
        /\ UNCHANGED <<source_weights, data, call, frames>>

Fuse(order) == pc = "assemble" /\ RunFusion(order, "returned")

FuseAgain(order) == pc = "returned" /\ RunFusion(order, "rerun")

\* sequences over S of length at most n
SeqsUpTo(S, n) == UNION {[1..k -> S] : k \in 0..n}

Sample(l, w, h, wt) == [length |-> l, width |-> w, height |-> h, weight |-> wt]
SampleSet ==
    {Sample(MM(4000), MM(3000), MM(3000), 7), Sample(MM(4100), MM(2950), MM(2800), 9),
     Sample(MM(9500), MM(3000), MM(3000), 5), Sample(MM(4000), MM(3050), MM(2750), 6),
     \* the same lengths under the weight of the first sample
     Sample(MM(4100), MM(2950), MM(2800), 7), Sample(MM(9500), MM(3000), MM(3000), 7)}

Direct == pc = "assemble" /\ data = EmptyData

\* a direct call of remove_outliers on index-aligned lists
CallRemoveOutliers(samples) ==
    /\ Direct
    /\ LET lengths == [i \in 1..Len(samples) |-> samples[i].length]
           widths  == [i \in 1..Len(samples) |-> samples[i].width]
           heights == [i \in 1..Len(samples) |-> samples[i].height]
           weights == [i \in 1..Len(samples) |-> samples[i].weight]
       IN  call' = [op |-> "remove_outliers", lengths |-> lengths, widths |-> widths,
                    heights |-> heights, weights |-> weights,
                    ret |-> remove_outliers(lengths, widths, heights, weights)]
    /\ pc' = "called"
    /\ UNCHANGED <<source_weights, data, hash_order, all_rooms, matched_rooms,
                   fused_rooms, raised, result, prev_result, frames>>

MeasurementValues == {-4, 4, 9}
WeightValues == {0, 9}

\* a direct call of calculate_measurement_confidence
CallConfidence(measurements, weights, num_sources) ==
    /\ Direct
    /\ call' = [op |-> "calculate_measurement_confidence",
                measurements |-> measurements, weights |-> weights,
                num_sources |-> num_sources,
                ret |-> calculate_measurement_confidence(measurements, weights, num_sources)]
    /\ pc' = "called"
    /\ UNCHANGED <<source_weights, data, hash_order, all_rooms, matched_rooms,
                   fused_rooms, raised, result, prev_result, frames>>

AverageValues == {MM(4000), MM(4050), MM(4100)}
AverageWeights == {0, 5, 7, 9}

\* a direct call of weighted_average
CallWeightedAverage(values, weights) ==
    /\ Direct
    /\ call' = [op |-> "weighted_average", values |-> values, weights |-> weights,
                ret |-> weighted_average(values, weights)]
    /\ pc' = "called"
    /\ UNCHANGED <<source_weights, data, hash_order, all_rooms, matched_rooms,
                   fused_rooms, raised, result, prev_result, frames>>

\* source tags of the members of a group handed to fuse_room_measurements;
\* "manual" is a tag the weight table does not hold
GroupTags == SourceSet \cup {"manual"}
GroupTemplates == {BedroomA, BedroomC, NoLength, UnknownA}
GroupItems == {Item(tag, WithId(t, <<tag, 1>>)) : tag \in GroupTags, t \in GroupTemplates}

\* a direct call of fuse_room_measurements
CallFuseRoom(room_group, order) ==
    /\ Direct
    /\ call' = [op |-> "fuse_room_measurements", room_group |-> room_group,
                ret |-> fuse_room_measurements(room_group, source_weights, order)]
    /\ pc' = "called"
    /\ UNCHANGED <<source_weights, data, hash_order, all_rooms, matched_rooms,
                   fused_rooms, raised, result, prev_result, frames>>

\* arguments of a direct call of validate_dimensions, in hundredths of a metre
SideValues == {100, 150, 200, 300, 1100}
HeightValues == {230, 240, 260, 300, 500, 550}
RoomTypes == {"master_bedroom", "bedroom", "living_room", "kitchen", "bathroom",
              "toilet", "garage"}

\* a direct call of validate_dimensions
CallValidate(length, width, height, room_type) ==
    /\ Direct
    /\ call' = [op |-> "validate_dimensions", length |-> length, width |-> width,
                height |-> height, room_type |-> room_type,
                ret |-> validate_dimensions(Rat(length, 100), Rat(width, 100),
                                            Rat(height, 100), room_type)]
    /\ pc' = "called"
    /\ UNCHANGED <<source_weights, data, hash_order, all_rooms, matched_rooms,
                   fused_rooms, raised, result, prev_result, frames>>

\* a bedroom of a very different area, and a room without a type key
BedroomFar == [type |-> "bedroom", name |-> NoName,
               dimensions |-> Dims(Num(MM(9500)), Num(MM(3000)), Absent, Num(2850))]
Untyped == [type |-> NoType, name |-> NoName,
            dimensions |-> Dims(Num(MM(4000)), Num(MM(3000)), Absent, Num(1200))]
MatchReferences == {BedroomA, UnknownA, Untyped}
MatchCandidates == {BedroomA, BedroomB, BedroomFar, UnknownA, Untyped, BadNumbers}

\* a direct call of find_best_match; the candidates are numbered in list order
CallFindBestMatch(reference_room, candidate_rooms) ==
    /\ Direct
    /\ LET candidates == [i \in 1..Len(candidate_rooms) |->
                             WithId(candidate_rooms[i], <<"candidate", i>>)]
           reference  == WithId(reference_room, <<"reference", 1>>)
       IN  call' = [op |-> "find_best_match", reference_room |-> reference,
                    candidate_rooms |-> candidates,
                    ret |-> find_best_match(reference, candidates)]
    /\ pc' = "called"
    /\ UNCHANGED <<source_weights, data, hash_order, all_rooms, matched_rooms,
                   fused_rooms, raised, result, prev_result, frames>>

\* the direct calls are made on a fresh engine, before any request
DirectRemoveOutliers ==
    Direct /\ \E samples \in SeqsUpTo(SampleSet, MaxSamples) : CallRemoveOutliers(samples)

DirectConfidence ==
    Direct /\ \E measurements \in SeqsUpTo(MeasurementValues, MaxMeasurements),
                 weights \in SeqsUpTo(WeightValues, MaxMeasurements),
                 num_sources \in 0..(MaxMeasurements + 1) :
                    CallConfidence(measurements, weights, num_sources)

DirectWeightedAverage ==
    Direct /\ \E values \in SeqsUpTo(AverageValues, MaxMeasurements),
                 weights \in SeqsUpTo(AverageWeights, MaxMeasurements) :
                    CallWeightedAverage(values, weights)

DirectFuseRoom ==
    Direct /\ \E room_group \in SeqsUpTo(GroupItems, MaxGroup), order \in HashOrders :
                    CallFuseRoom(room_group, order)

DirectValidate ==
    Direct /\ \E length \in SideValues, width \in SideValues, height \in HeightValues,
                 room_type \in RoomTypes :
                    CallValidate(length, width, height, room_type)

DirectFindBestMatch ==
    Direct /\ \E reference_room \in MatchReferences,
                 candidate_rooms \in SeqsUpTo(MatchCandidates, MaxCandidates) :
                    CallFindBestMatch(reference_room, candidate_rooms)

Next ==
    \/ \E s \in SourceSet, t \in Templates : AddRoom(s, t)
    \/ \E s \in SourceSet : MarkFailed(s)
    \/ \E order \in HashOrders : Fuse(order)
    \/ \E order \in HashOrders : FuseAgain(order)
    \/ DirectRemoveOutliers
    \/ DirectConfidence
    \/ DirectWeightedAverage
    \/ DirectFuseRoom
    \/ DirectValidate
    \/ DirectFindBestMatch

-----------------------------------------------------------------------------
(* Two runs of fuse_all_sources on one engine and one request, interleaved *)
(* statement by statement (two threads of the web server)                  *)

\* the requests of the interleaved runs come from two sources
ConcSources == {"floor_plan", "ar_measurement"}
ConcTemplates == {BedroomA, UnknownA, NoLength, BadNumbers}

\* mutant: the list of fused rooms is kept on the engine, shared by the runs
FusedSlot_shared(r) == 1

\* fused_rooms = [] is a local of the call: run r appends to its own list
FusedSlot(r) == r

\* run r enters fuse_all_sources and extracts the rooms
ExtractStep(r, order) ==
    /\ pc \in {"assemble", "running"}
    /\ frames[r].pc = "idle"
    /\ pc' = "running"
    /\ frames' = [frames EXCEPT ![r] = [IdleFrame EXCEPT !.pc = "extracted",
                                            !.order = order,
                                            !.all_rooms = extract_all_rooms(data)]]
    /\ UNCHANGED <<source_weights, data, hash_order, all_rooms, matched_rooms,
                   fused_rooms, raised, result, prev_result, call>>

\* run r matches the rooms and starts its list of fused rooms
MatchStep(r) ==
    /\ frames[r].pc = "extracted"
    /\ \E matched \in {match_rooms_across_sources(frames[r].all_rooms)} :
          frames' = IF matched.raised
                    THEN [frames EXCEPT ![r].pc = "raised", ![r].raised = TRUE,
                                        ![r].error = "TypeError"]
                    ELSE [frames EXCEPT ![r].pc = "fusing",
                                        ![r].matched_rooms = matched.groups,
                                        ![FusedSlot(r)].fused_rooms = <<>>]
    /\ UNCHANGED <<source_weights, data, pc, hash_order, all_rooms, matched_rooms,
                   fused_rooms, raised, result, prev_result, call>>

\* run r fuses its next group
FuseStep(r) ==
    /\ frames[r].pc = "fusing"
    /\ frames[r].next_group <= Len(frames[r].matched_rooms)
    /\ \E fused_room \in {fuse_room_measurements(
                              frames[r].matched_rooms[frames[r].next_group],
                              source_weights, frames[r].order)} :
          frames' =
            CASE fused_room.kind = "raise" ->
                    [frames EXCEPT ![r].pc = "raised", ![r].raised = TRUE,
                                   ![r].error = fused_room.error]
              [] fused_room.kind = "room" ->
                    [frames EXCEPT ![r].next_group = @ + 1,
                                   ![FusedSlot(r)].fused_rooms = Append(@, fused_room.room)]
              [] OTHER -> [frames EXCEPT ![r].next_group = @ + 1]
    /\ UNCHANGED <<source_weights, data, pc, hash_order, all_rooms, matched_rooms,
                   fused_rooms, raised, result, prev_result, call>>

\* run r returns
ReturnStep(r) ==
    /\ \/ frames[r].pc = "raised"
       \/ frames[r].pc = "fusing" /\ frames[r].next_group > Len(frames[r].matched_rooms)
    /\ \E loop \in {Looped(frames[r].raised, frames[r].error,
                           frames[FusedSlot(r)].fused_rooms)} :
          frames' = [frames EXCEPT ![r].pc = "done",
                                   ![r].result = fuse_all_sources(loop, data)]
    /\ UNCHANGED <<source_weights, data, pc, hash_order, all_rooms, matched_rooms,
                   fused_rooms, raised, result, prev_result, call>>

ConcNext ==
    \/ \E s \in ConcSources, t \in ConcTemplates : AddRoom(s, t)
    \/ \E r \in RunIds, order \in HashOrders : ExtractStep(r, order)
    \/ \E r \in RunIds : MatchStep(r)
    \/ \E r \in RunIds : FuseStep(r)
    \/ \E r \in RunIds : ReturnStep(r)

SpecConc == Init /\ [][ConcNext]_vars

Spec == Init /\ [][Next]_vars

-----------------------------------------------------------------------------
(* Properties *)

Returned == pc \in {"returned", "rerun"}
Ran == Returned /\ ~raised

\* positions <<group, member>> of the items of the match groups
Positions ==
    {<<g, i>> : g \in 1..Len(matched_rooms), i \in 1..MaxRooms}
    \cap {p \in (1..Len(matched_rooms)) \X (1..MaxRooms) : p[2] <= Len(matched_rooms[p[1]])}
ItemAt(p) == matched_rooms[p[1]][p[2]]

\* the number of group members that come from source s
MatchedFrom(s) == Cardinality({p \in Positions : ItemAt(p).source = s})

\* the first non-empty source list in the order of Sources, "" if none
RECURSIVE FirstNonEmptyFrom(_, _)
FirstNonEmptyFrom(rooms, i) ==
    IF i > Len(Sources) THEN ""
    ELSE IF rooms[Sources[i]] # <<>> THEN Sources[i]
    ELSE FirstNonEmptyFrom(rooms, i + 1)
FirstNonEmpty(rooms) == FirstNonEmptyFrom(rooms, 1)

NonEmptySources(rooms) == {s \in SourceSet : rooms[s] # <<>>}

(* C1: across the match groups of one call, each candidate room of a      *)
(* non-anchor source appears in at most one group, so the number of       *)
(* matched candidates of a source never exceeds the number supplied.      *)
C1_CandidateInAtMostOneGroup ==
    Ran =>
        /\ \A p, q \in Positions :
              (p[1] # q[1] /\ ItemAt(p).source = ItemAt(q).source)
                  => ItemAt(p).data.id # ItemAt(q).data.id
        /\ \A s \in SourceSet : MatchedFrom(s) <= Len(all_rooms[s])

(* C2: calculate_measurement_confidence returns a value in [0,1] for every *)
(* input, so the confidence of every emitted FusedRoom and the overall     *)
(* confidence of a run lie in [0,1] (0..100 in hundredths).                *)
C2_ConfidenceInUnitInterval ==
    /\ call.op = "calculate_measurement_confidence"
          => RLe(RInt(0), call.ret) /\ RLe(call.ret, RInt(1))
    /\ Returned =>
          \A i \in 1..Len(fused_rooms) :
              fused_rooms[i].fusion_metadata.confidence \in 0..100
    /\ Ran => result.fusion_metadata.overall_confidence \in 0..100

\* a call whose unclamped value is 0.9 + 0.3 - 0.1 = 1.1 returned 1
C2_ClampedAbove ==
    /\ call.op = "calculate_measurement_confidence"
    /\ call.measurements = <<4>> /\ call.weights = <<9>> /\ call.num_sources = 3
    /\ call.ret = RInt(1)

(* C3: running fuse_all_sources twice on the same input yields the same    *)
(* returned value (rooms, building totals, metadata), whatever the         *)
(* iteration order of sets in each run.                                    *)
C3_RerunReturnsTheSame ==
    pc = "rerun" => result = prev_result

\* two runs with different set iteration orders fused a group of several
\* members
C3_RerunWithOtherOrder ==
    /\ pc = "rerun" /\ hash_order[1] # hash_order[2]
    /\ result.success /\ result.rooms # <<>>
    /\ \E g \in 1..Len(matched_rooms) : Len(matched_rooms[g]) >= 2

(* C4: when a step of the run raises, fuse_all_sources returns exactly     *)
(* {error, success: False}: no building, rooms or fusion_metadata, and     *)
(* nothing of what was fused before the exception.                         *)
C4_ExceptionGivesErrorOnly ==
    (Returned /\ raised) =>
        /\ DOMAIN result = {"error", "success"}
        /\ result.success = FALSE
        /\ result.error # ""

\* a run raised after it had already fused a room
C4_RaisedAfterFusing ==
    Returned /\ raised /\ fused_rooms # <<>>

\* a group has a usable measurement: a member with a truthy length_mm
Usable(group) == \E i \in 1..Len(group) : Truthy(group[i].data.dimensions.length_mm)

(* C5: a group whose fused dimensions fail validation still yields a       *)
(* FusedRoom (is_valid false, with a reason) and the run reports success.  *)
C5_InvalidRoomIsKept ==
    Ran =>
        /\ result.success
        /\ \A g \in 1..Len(matched_rooms) :
              Usable(matched_rooms[g]) =>
                \E i \in 1..Len(result.rooms) :
                    /\ result.rooms[i].id = <<"fused", matched_rooms[g][1].data.id>>
                    /\ ~result.rooms[i].fusion_metadata.is_valid =>
                          result.rooms[i].fusion_metadata.validation_message.text # "Valid"
        /\ \A i \in 1..Len(result.rooms) :
              result.rooms[i].fusion_metadata.is_valid
                  = (result.rooms[i].fusion_metadata.validation_message.text = "Valid")

\* a successful run returned a room that failed validation beside a valid one
C5_InvalidRoomReturned ==
    /\ Ran /\ result.success
    /\ \E i, j \in 1..Len(result.rooms) :
          /\ ~result.rooms[i].fusion_metadata.is_valid
          /\ result.rooms[j].fusion_metadata.is_valid

\* a candidate room without a numeric length_mm
Malformed(room) == room.dimensions.length_mm.k # "num"

(* C6: a candidate room with missing or non-numeric dimension fields is    *)
(* skipped and does not abort the run: the run still returns success.      *)
C6_MalformedCandidateDoesNotAbort ==
    (Returned /\ \E k \in PayloadKeys : \E i \in 1..Len(data[k].rooms) :
                    Malformed(data[k].rooms[i]))
        => result.success

(* C7: the anchor is the first non-empty source list in the order          *)
(* floor_plan, ar_measurement, voice_input, photos: there is one group per *)
(* room of it, headed by that room, and when it is the only non-empty      *)
(* source (photos included) the groups are singletons.                     *)
C7_AnchorIsFirstNonEmptySource ==
    (Ran /\ NonEmptySources(all_rooms) # {}) =>
        LET anchor == FirstNonEmpty(all_rooms)
        IN  /\ Len(matched_rooms) = Len(all_rooms[anchor])
            /\ \A i \in 1..Len(matched_rooms) :
                  /\ matched_rooms[i][1] = Item(anchor, all_rooms[anchor][i])
                  /\ Cardinality(NonEmptySources(all_rooms)) = 1
                        => Len(matched_rooms[i]) = 1

(* C8: for every anchor room, every other non-empty source is searched and *)
(* its best acceptable candidate is added to the anchor room's group.      *)
C8_EveryOtherSourceIsSearched ==
    Ran =>
        \A g \in 1..Len(matched_rooms) : \A s \in NonEmptySources(all_rooms) :
            s # matched_rooms[g][1].source =>
                LET m == find_best_match(matched_rooms[g][1].data, all_rooms[s]).match
                IN  m # <<>> =>
                      \E i \in 1..Len(matched_rooms[g]) : matched_rooms[g][i] = Item(s, m[1])

(* C9: remove_outliers called with 3 or more samples of equal length       *)
(* retains every sample: the four output lists equal the input lists.      *)
C9_EqualLengthsAreAllRetained ==
    (/\ call.op = "remove_outliers"
     /\ Len(call.lengths) >= 3
     /\ \A i \in 1..Len(call.lengths) : call.lengths[i] = call.lengths[1])
        => call.ret = Quad(call.lengths, call.widths, call.heights, call.weights)

(* C10: for every non-empty input remove_outliers returns at least one     *)
(* sample: none of its four output lists is empty.                         *)
C10_OutputIsNeverEmpty ==
    (call.op = "remove_outliers" /\ call.lengths # <<>>)
        => /\ call.ret.lengths # <<>>
           /\ call.ret.widths # <<>>
           /\ call.ret.heights # <<>>
           /\ call.ret.weights # <<>>

(* C11: for the lengths [4000, 4100, 9500] with equal weights              *)
(* remove_outliers drops 9500, and the fused length is the weighted        *)
(* average of the remaining samples 4000 and 4100 only.                    *)
C11_GrossOutlierIsDropped ==
    (/\ call.op = "remove_outliers"
     /\ call.lengths = <<MM(4000), MM(4100), MM(9500)>>
     /\ \A i \in 1..Len(call.weights) : call.weights[i] = call.weights[1])
        => /\ call.ret.lengths = <<MM(4000), MM(4100)>>
           /\ weighted_average(call.ret.lengths, call.ret.weights)
                  = Rat(MM(4000) + MM(4100), 2)

\* a call of weighted_average on index-aligned, non-empty lists
AverageCall ==
    /\ call.op = "weighted_average"
    /\ call.values # <<>>
    /\ Len(call.values) = Len(call.weights)
EqualWeights == \A i \in 1..Len(call.weights) : call.weights[i] = call.weights[1]

(* C12 (as stated): weighted_average returns the arithmetic mean of the    *)
(* values whenever all weights are equal, and the sample itself whenever   *)
(* it is given a single value with its weight.                             *)
C12_MeanForEqualWeights ==
    (AverageCall /\ EqualWeights) =>
        /\ call.ret = Rat(SumSeq(call.values), Len(call.values))
        /\ Len(call.values) = 1 => call.ret = RInt(call.values[1])

(* C12 (amended): weighted_average returns the arithmetic mean whenever    *)
(* all weights are equal and positive, and the sample itself for a single  *)
(* value with a positive weight; for equal weights of 0 it returns 0.      *)
C12_MeanForEqualPositiveWeights ==
    (AverageCall /\ EqualWeights) =>
        IF call.weights[1] > 0
        THEN /\ call.ret = Rat(SumSeq(call.values), Len(call.values))
             /\ Len(call.values) = 1 => call.ret = RInt(call.values[1])
        ELSE call.ret = RInt(0)

\* two values under the same positive weight were averaged to their mean
C12_TwoValuesSameWeight ==
    /\ call.op = "weighted_average"
    /\ call.values = <<MM(4000), MM(4100)>> /\ call.weights = <<7, 7>>
    /\ call.ret = RInt(MM(4050))

\* sum of values[i] * weights[i] over the first k pairs
RECURSIVE DotUpTo(_, _, _)
DotUpTo(values, weights, k) ==
    IF k = 0 THEN 0 ELSE values[k] * weights[k] + DotUpTo(values, weights, k - 1)

(* C13: weighted_average(values, weights) is the sum of value * weight     *)
(* over the samples divided by the sum of the weights; it is 0 when either *)
(* list is empty or the weights sum to 0, and it never divides by zero.    *)
C13_WeightedSumOverWeightSum ==
    call.op = "weighted_average" =>
        /\ call.ret.d > 0
        /\ IF call.values = <<>> \/ call.weights = <<>> \/ SumSeq(call.weights) = 0
           THEN call.ret = RInt(0)
           ELSE call.ret.n * SumSeq(call.weights)
                  = call.ret.d * DotUpTo(call.values, call.weights,
                                         Min(Len(call.values), Len(call.weights)))

\* two values under different weights were averaged
C13_TwoValuesTwoWeights ==
    /\ call.op = "weighted_average"
    /\ call.values = <<MM(4000), MM(4050)>> /\ call.weights = <<7, 9>>
    /\ call.ret = Rat(1289, 16)

\* the reliability the specification gives to a source tag, in tenths
ClaimedWeight(tag) ==
    CASE tag = "ar_measurement" -> 9
      [] tag = "floor_plan"     -> 7
      [] tag = "photos"         -> 6
      [] tag = "voice_input"    -> 5
      [] OTHER                  -> 5

\* the usable members of a group, in order
RECURSIVE UsableMembers(_)
UsableMembers(group) ==
    IF group = <<>> THEN <<>>
    ELSE (IF Truthy(Head(group).data.dimensions.length_mm) THEN <<Head(group)>> ELSE <<>>)
         \o UsableMembers(Tail(group))
MemberLengths(members) == [i \in 1..Len(members) |-> members[i].data.dimensions.length_mm.v]
MemberWeights(members) == [i \in 1..Len(members) |-> ClaimedWeight(members[i].source)]

\* a direct call of fuse_room_measurements with one or two usable members
\* (no outlier filter applies)
FuseCall ==
    /\ call.op = "fuse_room_measurements"
    /\ Len(UsableMembers(call.room_group)) \in 1..2

(* C14: each usable member of a group is weighted by the reliability of    *)
(* its source tag (ar_measurement 0.9, floor_plan 0.7, photos 0.6,         *)
(* voice_input 0.5, other tags 0.5); a floor_plan bedroom of 4000 mm with  *)
(* an ar_measurement bedroom of 4050 mm fuses to 4028.1 mm (one decimal).  *)
C14_MembersWeightedBySource ==
    FuseCall =>
        LET members == UsableMembers(call.room_group)
            lengths == MemberLengths(members)
            weights == MemberWeights(members)
        IN  /\ call.ret.kind = "room"
            /\ call.ret.room.dimensions.length_mm
                 = Round(Rat(DotUpTo(lengths, weights, Len(members)), SumSeq(weights)),
                         100 * Grid)
            /\ (/\ Len(members) = 2
                /\ members[1].source = "floor_plan" /\ lengths[1] = MM(4000)
                /\ members[2].source = "ar_measurement" /\ lengths[2] = MM(4050))
                  => call.ret.room.dimensions.length_mm \div 10 = 40281

\* the floor_plan bedroom of 4000 mm was fused with the ar_measurement
\* bedroom of 4050 mm
C14_FloorPlanWithAr ==
    /\ call.op = "fuse_room_measurements"
    /\ Len(call.room_group) = 2
    /\ call.room_group[1].source = "floor_plan"
    /\ call.room_group[1].data.dimensions.length_mm = Num(MM(4000))
    /\ call.room_group[2].source = "ar_measurement"
    /\ call.room_group[2].data.dimensions.length_mm = Num(MM(4050))
    /\ call.ret.kind = "room"

\* clamp(x, 0, 1)
Clamp01(x) == IF RLt(x, RInt(0)) THEN RInt(0) ELSE IF RLt(RInt(1), x) THEN RInt(1) ELSE x

\* mean of the weights + min(0.1 * members, 0.3) - variance penalty, clamped
ClaimedConfidence(lengths, weights, members) ==
    Clamp01(RSub(RAdd(Rat(SumSeq(weights), 10 * Len(weights)),
                      IF members < 3 THEN Rat(members, 10) ELSE Rat(3, 10)),
                 Rat(VariancePenalty(lengths), 1000)))

(* C15: the confidence of a fused room is clamp(mean of the weights        *)
(* retained after filtering + min(0.1 * members of the group before        *)
(* filtering, 0.3) - variance penalty, 0, 1); for a singleton group it is  *)
(* the weight of the source (0.5 for a lone voice_input room).             *)
C15_ConfidenceFormula ==
    /\ (/\ call.op = "calculate_measurement_confidence"
        /\ call.measurements # <<>> /\ call.weights # <<>>)
          => call.ret = ClaimedConfidence(call.measurements, call.weights, call.num_sources)
    /\ FuseCall =>
          LET members == UsableMembers(call.room_group)
          IN  /\ call.ret.room.fusion_metadata.confidence
                   = Round(ClaimedConfidence(MemberLengths(members), MemberWeights(members),
                                             Len(call.room_group)), 100)
              /\ Len(call.room_group) = 1 =>
                    call.ret.room.fusion_metadata.confidence
                        = 10 * ClaimedWeight(call.room_group[1].source)
    /\ Ran =>
          \A g \in 1..Len(matched_rooms) :
              (Len(matched_rooms[g]) = 1 /\ Usable(matched_rooms[g])) =>
                  \E i \in 1..Len(result.rooms) :
                      /\ result.rooms[i].id = <<"fused", matched_rooms[g][1].data.id>>
                      /\ result.rooms[i].fusion_metadata.confidence
                            = 10 * ClaimedWeight(matched_rooms[g][1].source)

\* a run fused a lone voice_input room with confidence 0.5
C15_LoneVoiceRoom ==
    /\ Ran
    /\ Len(matched_rooms) = 1 /\ Len(matched_rooms[1]) = 1
    /\ matched_rooms[1][1].source = "voice_input"
    /\ Len(result.rooms) = 1
    /\ result.rooms[1].fusion_metadata.confidence = 50

\* the standard the specification lists for a room type: minimum area in
\* hundredths of a square metre, minimum side and height in hundredths of a metre
ClaimedStandard(room_type) ==
    CASE room_type = "master_bedroom" -> <<900, 270, 275>>
      [] room_type = "bedroom"        -> <<750, 240, 275>>
      [] room_type = "living_room"    -> <<1200, 300, 275>>
      [] room_type = "kitchen"        -> <<550, 210, 275>>
      [] room_type = "bathroom"       -> <<300, 150, 240>>
      [] room_type = "toilet"         -> <<150, 120, 240>>
      [] OTHER                        -> <<200, 150, 240>>

\* the five checks in order, on sides in hundredths of a metre (the area is
\* then in ten-thousandths of a square metre)
ClaimedChecks(length, width, height, room_type) ==
    LET std == ClaimedStandard(room_type)
    IN  << <<length * width >= 100 * std[1], "Area below minimum">>,
           <<Min(length, width) >= std[2], "Dimension below minimum">>,
           <<height >= std[3], "Height below minimum">>,
           <<length * width <= 100 * 10000, "Area unusually large">>,
           <<height <= 500, "Height unusually high">> >>

(* C16: validate_dimensions looks up the standard of the room type and     *)
(* applies five checks in order (area >= min_area, shorter side >=         *)
(* min_length, height >= min_height, area <= 100, height <= 5.0); it       *)
(* reports the first check that fails and passes only when all five hold.  *)
C16_FirstFailingCheckIsReported ==
    call.op = "validate_dimensions" =>
        LET checks == ClaimedChecks(call.length, call.width, call.height, call.room_type)
            failed == {i \in 1..Len(checks) : ~checks[i][1]}
        IN  /\ call.ret.is_valid = (failed = {})
            /\ failed = {} => call.ret.validation_message.text = "Valid"
            /\ \A i \in failed :
                  (\A j \in failed : i <= j) =>
                      call.ret.validation_message.text = checks[i][2]

\* a bathroom of 2.0 x 1.0 m was rejected for its area, though its shorter
\* side is below the minimum as well
C16_BathroomFailsOnArea ==
    /\ call.op = "validate_dimensions"
    /\ call.room_type = "bathroom" /\ call.length = 200 /\ call.width = 100
    /\ call.ret.is_valid = FALSE
    /\ call.ret.validation_message.text = "Area below minimum"
    /\ call.ret.validation_message.limit = 300

\* sum of f over the rooms emitted by the run
RECURSIVE TotalArea(_)
TotalArea(k) ==
    IF k = 0 THEN 0 ELSE result.rooms[k].dimensions.area_sqm + TotalArea(k - 1)
RECURSIVE TotalConfidence(_)
TotalConfidence(k) ==
    IF k = 0 THEN 0 ELSE result.rooms[k].fusion_metadata.confidence + TotalConfidence(k - 1)

(* C17: on success the building's total floor area is the sum of area_sqm  *)
(* over the emitted rooms, total_rooms and total_rooms_detected are their  *)
(* number, and the overall confidence is the mean of their confidences     *)
(* (to two decimals), 0 when no room is emitted.                           *)
C17_BuildingTotals ==
    Ran =>
        LET n == Len(result.rooms)
            overall == result.fusion_metadata.overall_confidence
        IN  /\ result.rooms = fused_rooms
            /\ result.building.total_floor_area_sqm = TotalArea(n)
            /\ result.building.total_rooms = n
            /\ result.fusion_metadata.total_rooms_detected = n
            /\ n = 0 => overall = 0
            /\ n > 0 => 2 * Abs(n * overall - TotalConfidence(n)) <= n

\* a run emitted two rooms of different confidence
C17_TwoRoomsEmitted ==
    /\ Ran /\ Len(result.rooms) = 2
    /\ result.rooms[1].fusion_metadata.confidence
          # result.rooms[2].fusion_metadata.confidence
    /\ result.building.total_floor_area_sqm > result.rooms[1].dimensions.area_sqm

(* C18: fusion_metadata.sources_used holds exactly the source tags that    *)
(* contributed a room to the fused output: a source is listed if and only  *)
(* if some emitted room has a member from it.                              *)
C18_SourcesUsedAreContributors ==
    Ran =>
        \A s \in SourceSet :
            (\E i \in 1..Len(result.fusion_metadata.sources_used) :
                  result.fusion_metadata.sources_used[i] = s)
            <=> (\E r \in 1..Len(result.rooms) :
                    \E i \in 1..Len(result.rooms[r].fusion_metadata.sources_used) :
                        result.rooms[r].fusion_metadata.sources_used[i] = s)

\* no room of the request carries a string where a number is expected
WellTyped ==
    \A k \in PayloadKeys : \A i \in 1..Len(data[k].rooms) :
        \A f \in DOMAIN data[k].rooms[i].dimensions :
            data[k].rooms[i].dimensions[f].k # "str"

(* C19: a match group in which no member has a usable dimension tuple      *)
(* produces no FusedRoom: it is dropped, the other groups are still fused  *)
(* and the run reports success.                                            *)
C19_UnusableGroupIsDropped ==
    (Returned /\ WellTyped) =>
        /\ result.success
        /\ \A g \in 1..Len(matched_rooms) :
              Usable(matched_rooms[g])
                 <=> \E i \in 1..Len(result.rooms) :
                        result.rooms[i].id = <<"fused", matched_rooms[g][1].data.id>>
        /\ Len(result.rooms)
              = Cardinality({g \in 1..Len(matched_rooms) : Usable(matched_rooms[g])})

\* a run dropped a group without usable members and fused another group
C19_OneDroppedOneFused ==
    /\ Returned /\ WellTyped
    /\ Len(matched_rooms) = 2
    /\ ~Usable(matched_rooms[1]) /\ Usable(matched_rooms[2])
    /\ result.success /\ Len(result.rooms) = 1

\* the value a run on the request returns when it runs alone
Alone(order) ==
    LET matched == match_rooms_across_sources(extract_all_rooms(data))
    IN  fuse_all_sources(IF matched.raised THEN Looped(TRUE, "TypeError", <<>>)
                         ELSE FuseLoop(matched.groups, InitWeights, order, <<>>),
                         data)

(* C20: a run of fuse_all_sources writes neither the engine's              *)
(* source_weights nor the candidate rooms of its input, and under any      *)
(* interleaving of two runs each run returns what it returns alone.        *)
C20_RunsAreIndependent ==
    /\ [](\A r \in RunIds :
            frames[r].pc = "done" => frames[r].result = Alone(frames[r].order))
    /\ [][pc = "running" => (source_weights' = source_weights /\ data' = data)]_vars

\* both runs returned rooms after their fusing steps were interleaved
C20_BothRunsReturned ==
    /\ \A r \in RunIds : frames[r].pc = "done" /\ frames[r].result.success
    /\ Len(frames[1].result.rooms) = 2

(* C21: every match group produced by match_rooms_across_sources holds at  *)
(* most one candidate room per source tag.                                 *)
C21_OneMemberPerSource ==
    Ran =>
        \A g \in 1..Len(matched_rooms) :
            \A i, j \in 1..Len(matched_rooms[g]) :
                i # j => matched_rooms[g][i].source # matched_rooms[g][j].source

\* an anchor room took one of two ar_measurement rooms of its own type
C21_TwoCandidatesOneMember ==
    /\ Ran
    /\ Len(all_rooms["floor_plan"]) = 1 /\ Len(all_rooms["ar_measurement"]) = 2
    /\ \A i \in 1..2 : all_rooms["ar_measurement"][i].type = all_rooms["floor_plan"][1].type
    /\ all_rooms["floor_plan"][1].type = "bedroom"
    /\ Len(matched_rooms[1]) = 2

\* the types the members of a group report, in group order
RECURSIVE MemberTypes(_)
MemberTypes(group) ==
    IF group = <<>> THEN <<>>
    ELSE (IF Head(group).data.type # NoType THEN <<Head(group).data.type>> ELSE <<>>)
         \o MemberTypes(Tail(group))

\* the majority type, the first seen among the most frequent; unknown if none
ClaimedType(types) ==
    IF types = <<>> THEN "unknown"
    ELSE LET top(i) == \A j \in 1..Len(types) : Count(types, types[j]) <= Count(types, types[i])
             first == CHOOSE i \in 1..Len(types) :
                         top(i) /\ \A j \in 1..(i - 1) : ~top(j)
         IN  types[first]

(* C22: the type of a FusedRoom is the type most members of its group      *)
(* report; among types with the same highest count the one seen first in   *)
(* group order is chosen; a group without any type resolves to unknown.    *)
C22_MajorityTypeFirstSeen ==
    /\ (call.op = "fuse_room_measurements" /\ call.ret.kind = "room")
          => call.ret.room.type = ClaimedType(MemberTypes(call.room_group))
    /\ Ran =>
          \A g \in 1..Len(matched_rooms) : \A i \in 1..Len(result.rooms) :
              result.rooms[i].id = <<"fused", matched_rooms[g][1].data.id>>
                  => result.rooms[i].type = ClaimedType(MemberTypes(matched_rooms[g]))

\* sum over j of (n * x[j] - S)^2, which is n^3 times the population variance
RECURSIVE Deviations(_, _)
Deviations(lengths, k) ==
    IF k = 0 THEN 0
    ELSE LET dev == Len(lengths) * lengths[k] - SumSeq(lengths)
         IN  dev * dev + Deviations(lengths, k - 1)

\* |z| of sample i is below 2: (x[i] - mean)^2 < 4 * variance, with a
\* standard deviation that is not 0
BelowTwo(lengths, i) ==
    LET dev == Len(lengths) * lengths[i] - SumSeq(lengths)
    IN  Len(lengths) * dev * dev < 4 * Deviations(lengths, Len(lengths))

\* the elements of s at the indices of keep from index i on, in order
RECURSIVE SelectAt(_, _, _)
SelectAt(s, keep, i) ==
    IF i > Len(s) THEN <<>>
    ELSE (IF i \in keep THEN <<s[i]>> ELSE <<>>) \o SelectAt(s, keep, i + 1)

(* C23: remove_outliers returns its four lists unchanged for fewer than 3  *)
(* samples; otherwise it retains exactly the indices whose length z-score  *)
(* is below 2.0 in absolute value and applies the same mask to widths,     *)
(* heights and weights: the outputs have equal length, stay index-aligned  *)
(* and keep the input order.                                               *)
C23_SameMaskOnAllLists ==
    call.op = "remove_outliers" =>
        LET n == Len(call.lengths)
            keep == IF n < 3 THEN 1..n ELSE {i \in 1..n : BelowTwo(call.lengths, i)}
        IN  /\ call.ret.lengths = SelectAt(call.lengths, keep, 1)
            /\ call.ret.widths = SelectAt(call.widths, keep, 1)
            /\ call.ret.heights = SelectAt(call.heights, keep, 1)
            /\ call.ret.weights = SelectAt(call.weights, keep, 1)
            /\ Len(call.ret.widths) = Len(call.ret.lengths)
            /\ Len(call.ret.heights) = Len(call.ret.lengths)
            /\ Len(call.ret.weights) = Len(call.ret.lengths)

\* of five samples the outlying one was removed from all four lists
C23_OneOfFiveRemoved ==
    /\ call.op = "remove_outliers"
    /\ call.lengths = <<MM(4000), MM(4000), MM(4000), MM(4000), MM(9500)>>
    /\ call.weights = <<7, 6, 7, 6, 5>>
    /\ call.ret.lengths = <<MM(4000), MM(4000), MM(4000), MM(4000)>>
    /\ call.ret.widths = <<MM(3000), MM(3050), MM(3000), MM(3050)>>
    /\ call.ret.weights = <<7, 6, 7, 6>>

\* the variance penalty as specified, in thousandths rounded down: 0.1 for
\* one sample, else min(0.2 * cv, 0.3) with cv = stddev / mean, and cv = 0
\* when the mean is 0 (stddev / mean = sqrt(D) / S for D = ScaledVariance)
ClaimedPenalty(measurements) ==
    LET S == SumSeq(measurements)
        D == Deviations(measurements, Len(measurements)) \div Len(measurements)
    IN  IF Len(measurements) = 1 THEN 100
        ELSE IF S = 0 THEN 0
        ELSE CHOOSE p \in 0..300 :
                \/ p = 300 /\ 40000 * D >= (300 * S) * (300 * S)
                \/ /\ p < 300
                   /\ (p * S) * (p * S) <= 40000 * D
                   /\ 40000 * D < ((p + 1) * S) * ((p + 1) * S)

(* C24: the variance penalty of the confidence is 0.1 when one sample is   *)
(* retained; with more samples it is min(0.2 * cv, 0.3) for                *)
(* cv = stddev(lengths) / mean(lengths), and cv is 0 when the mean is 0.   *)
C24_VariancePenalty ==
    (/\ call.op = "calculate_measurement_confidence"
     /\ call.measurements # <<>> /\ call.weights # <<>>
     /\ SumSeq(call.measurements) >= 0)
        => call.ret = Clamp01(RSub(RAdd(Rat(SumSeq(call.weights), 10 * Len(call.weights)),
                                        Rat(Min(call.num_sources, 3), 10)),
                                   Rat(ClaimedPenalty(call.measurements), 1000)))

\* a direct call of find_best_match that returned
MatchCall == call.op = "find_best_match" /\ ~call.ret.raised

\* the type find_best_match compares with: unknown when the key is missing
ReferenceType == IF call.reference_room.type = NoType THEN "unknown"
                 ELSE call.reference_room.type

\* 0.6 for an equal type that is not unknown, plus 0.4 * (1 - d) when both
\* areas are positive and d = |a_ref - a_cand| / max(a_ref, a_cand) < 0.3
ClaimedScore(candidate) ==
    LET a_ref  == GetOr(call.reference_room.dimensions.area_sqm, 0).v
        a_cand == GetOr(candidate.dimensions.area_sqm, 0).v
        d      == Rat(Abs(a_ref - a_cand), Max(Max(a_ref, a_cand), 1))
    IN  RAdd(IF candidate.type = ReferenceType /\ ReferenceType # "unknown"
             THEN Rat(6, 10) ELSE RInt(0),
             IF a_ref > 0 /\ a_cand > 0 /\ RLt(d, Rat(3, 10))
             THEN RMul(Rat(4, 10), RSub(RInt(1), d)) ELSE RInt(0))

(* C25: find_best_match scores a candidate 0.6 for an equal type that is   *)
(* not unknown plus 0.4 * (1 - d) for a relative area difference d < 0.3   *)
(* between positive areas; it returns the candidate of the highest score   *)
(* if that score is above 0.4, the first among equal scores, else none.    *)
C25_HighestScoreAboveThreshold ==
    MatchCall =>
        LET candidates == call.candidate_rooms
            score(i) == ClaimedScore(candidates[i])
        IN  IF call.ret.match = <<>>
            THEN \A i \in 1..Len(candidates) : RLe(score(i), Rat(4, 10))
            ELSE \E i \in 1..Len(candidates) :
                    /\ candidates[i] = call.ret.match[1]
                    /\ RLt(Rat(4, 10), score(i))
                    /\ \A j \in 1..Len(candidates) : RLe(score(j), score(i))
                    /\ \A j \in 1..(i - 1) : RLt(score(j), score(i))

\* of two candidates of the same score the first one was returned
C25_FirstOfEqualScores ==
    /\ MatchCall
    /\ Len(call.candidate_rooms) = 2
    /\ ClaimedScore(call.candidate_rooms[1]) = ClaimedScore(call.candidate_rooms[2])
    /\ call.ret.match = <<call.candidate_rooms[1]>>

(* C28: find_best_match returns a candidate if and only if some candidate  *)
(* has the reference room's type and that type is not unknown, and the     *)
(* returned candidate has that type: the area alone (at most 0.4) never    *)
(* binds, a type match alone (0.6) always does.                            *)
C28_BindsExactlyOnTypeMatch ==
    MatchCall =>
        /\ call.ret.match # <<>>
              <=> /\ ReferenceType # "unknown"
                  /\ \E i \in 1..Len(call.candidate_rooms) :
                        call.candidate_rooms[i].type = ReferenceType
        /\ call.ret.match # <<>> => call.ret.match[1].type = ReferenceType

\* a bedroom of a very different area was bound, a room of equal area and
\* another type was not
C28_TypeBindsAreaDoesNot ==
    /\ MatchCall
    /\ call.reference_room.type = "bedroom"
    /\ Len(call.candidate_rooms) = 2
    /\ call.candidate_rooms[1].type = "unknown"
    /\ call.candidate_rooms[1].dimensions.area_sqm = call.reference_room.dimensions.area_sqm
    /\ call.candidate_rooms[2].dimensions.area_sqm = Num(2850)
    /\ call.ret.match = <<call.candidate_rooms[2]>>

\* the base of the groups: the floor plan, else the AR rooms, else the voice
\* rooms (C7 is about this choice)
BaseSource ==
    IF all_rooms["floor_plan"] # <<>> THEN "floor_plan"
    ELSE IF all_rooms["ar_measurement"] # <<>> THEN "ar_measurement"
    ELSE "voice_input"

\* the candidate is acceptable for the anchor room: its score is above 0.4
Acceptable(anchor_room, candidate) ==
    /\ candidate.type = anchor_room.type
    /\ anchor_room.type \notin {"unknown", NoType}

(* C26: match_rooms_across_sources returns one group per anchor room, in   *)
(* anchor order, headed by that anchor room; an anchor room without an     *)
(* acceptable match in a source has no member of that source, and a        *)
(* candidate no anchor room matched appears in no group.                   *)
C26_OneGroupPerAnchorRoom ==
    Ran =>
        /\ Len(matched_rooms) = Len(all_rooms[BaseSource])
        /\ \A g \in 1..Len(matched_rooms) :
              /\ matched_rooms[g][1] = Item(BaseSource, all_rooms[BaseSource][g])
              /\ \A i \in 2..Len(matched_rooms[g]) :
                    LET member == matched_rooms[g][i]
                    IN  /\ member.source # BaseSource
                        /\ \E k \in 1..Len(all_rooms[member.source]) :
                              all_rooms[member.source][k] = member.data
                        /\ Acceptable(matched_rooms[g][1].data, member.data)

\* one anchor room took a member, another anchor room stayed alone and a
\* candidate of another type stayed out of every group
C26_MatchedAndUnmatched ==
    /\ Ran
    /\ Len(matched_rooms) = 2
    /\ Len(matched_rooms[1]) = 1 /\ Len(matched_rooms[2]) = 2
    /\ Len(all_rooms["ar_measurement"]) = 1

\* the number of samples left of the lengths after the outlier filter
RetainedCount(lengths) ==
    IF Len(lengths) < 3 THEN Len(lengths)
    ELSE Cardinality({i \in 1..Len(lengths) : BelowTwo(lengths, i)})

\* the metadata of a room fused from a group, as specified
ClaimedMetadata(group, room) ==
    LET members == UsableMembers(group)
    IN  /\ room.fusion_metadata.sources_used
              = [i \in 1..Len(members) |-> members[i].source]
        /\ room.fusion_metadata.measurements_fused = RetainedCount(MemberLengths(members))
        /\ room.fusion_metadata.measurements_fused
              <= Len(room.fusion_metadata.sources_used)

(* C27: the metadata of a FusedRoom lists the source tags of the members   *)
(* that contributed a measurement, and measurements_fused is the number of *)
(* samples left after outlier removal, never more than the listed sources. *)
C27_MetadataListsContributors ==
    /\ (call.op = "fuse_room_measurements" /\ call.ret.kind = "room")
          => ClaimedMetadata(call.room_group, call.ret.room)
    /\ Ran =>
          \A g \in 1..Len(matched_rooms) : \A i \in 1..Len(result.rooms) :
              result.rooms[i].id = <<"fused", matched_rooms[g][1].data.id>>
                  => ClaimedMetadata(matched_rooms[g], result.rooms[i])

\* remove_outliers kept all the samples or none of them
AllOrNone == Len(call.ret.lengths) \in {0, Len(call.lengths)}

\* no run rejected a part of the measurements of a group, and no group has
\* more than 3 members
NoRunRejectsAnOutlier ==
    Ran =>
        \A g \in 1..Len(matched_rooms) :
            /\ Len(matched_rooms[g]) <= 3
            /\ \A i \in 1..Len(result.rooms) :
                  result.rooms[i].id = <<"fused", matched_rooms[g][1].data.id>>
                      => result.rooms[i].fusion_metadata.measurements_fused
                            \in {0, Len(UsableMembers(matched_rooms[g]))}

(* C29 (as stated): for 3, 4 or 5 samples remove_outliers never removes a  *)
(* proper non-empty subset of the samples, and no run of fuse_all_sources  *)
(* rejects a single outlying measurement.                                  *)
C29_NoPartialRemovalUpToFive ==
    /\ (call.op = "remove_outliers" /\ Len(call.lengths) \in 3..5) => AllOrNone
    /\ NoRunRejectsAnOutlier

(* C29 (amended): for 3 or 4 samples remove_outliers never removes a       *)
(* proper non-empty subset of the samples (the largest |z| is sqrt(n-1));  *)
(* of the 5 samples [9500, 4000, 4000, 4000, 4000] the sample 9500 has     *)
(* |z| = 2 and is removed; a match group has at most 3 members, so no run  *)
(* of fuse_all_sources rejects a single outlying measurement.              *)
C29_NoPartialRemovalUpToFour ==
    /\ (call.op = "remove_outliers" /\ Len(call.lengths) \in 3..4) => AllOrNone
    /\ (/\ call.op = "remove_outliers"
        /\ call.lengths = <<MM(9500), MM(4000), MM(4000), MM(4000), MM(4000)>>)
          => call.ret.lengths = <<MM(4000), MM(4000), MM(4000), MM(4000)>>
    /\ NoRunRejectsAnOutlier

\* the gross outlier among four samples was retained
C29_OutlierOfFourRetained ==
    /\ call.op = "remove_outliers"
    /\ call.lengths = <<MM(9500), MM(4000), MM(4000), MM(4000)>>
    /\ call.ret.lengths = call.lengths

\* the smallest and the largest element of a non-empty sequence of numbers
SeqMin(s) == CHOOSE x \in {s[i] : i \in 1..Len(s)} : \A i \in 1..Len(s) : x <= s[i]
SeqMax(s) == CHOOSE x \in {s[i] : i \in 1..Len(s)} : \A i \in 1..Len(s) : s[i] <= x

\* x, in hundredths of a millimetre, lies between the extremes of s
Between(x, s) == 100 * Grid * SeqMin(s) <= x /\ x <= 100 * Grid * SeqMax(s)

\* the fused dimensions of a room lie within the measurements of its group
WithinMeasurements(group, room) ==
    LET members == UsableMembers(group)
        dims(i) == members[i].data.dimensions
    IN  /\ Between(room.dimensions.length_mm, MemberLengths(members))
        /\ Between(room.dimensions.width_mm,
                   [i \in 1..Len(members) |-> GetOr(dims(i).width_mm, 0).v])
        /\ Between(room.dimensions.height_mm,
                   [i \in 1..Len(members) |-> GetOr(dims(i).height_mm, MM(3000)).v])

(* C30: every FusedRoom has a fused length between the smallest and the    *)
(* largest usable length of its group, and a fused width and height        *)
(* between the smallest and largest collected width and height; a group    *)
(* whose lengths are all positive never fuses to length 0.                 *)
C30_FusedWithinMeasurements ==
    /\ (call.op = "fuse_room_measurements" /\ call.ret.kind = "room")
          => WithinMeasurements(call.room_group, call.ret.room)
    /\ Ran =>
          \A g \in 1..Len(matched_rooms) : \A i \in 1..Len(result.rooms) :
              result.rooms[i].id = <<"fused", matched_rooms[g][1].data.id>>
                  => WithinMeasurements(matched_rooms[g], result.rooms[i])

====
